---- MODULE Spec2Model ----
(***************************************************************************)
(* Health-Bridge front end: the local state of the AppointmentBooking and  *)
(* MedicalRecords views and the role-protected routing of App, as state    *)
(* machines.  Every handler of a component is one action; the pure part of *)
(* each handler is an operator of the same name ending in Fn.              *)
(***************************************************************************)
EXTENDS Integers, Sequences, FiniteSets

VARIABLES
    \* AppointmentBooking.tsx, useState hooks (lines 19-23)
    selectedDoctor, selectedDate, selectedTime, showPayment, paymentComplete,
    \* AppointmentBooking.tsx, setTimeout callbacks scheduled and not yet run
    pendingTimers,
    \* history: handlePayment has been invoked since the component was
    \* mounted or last reset by 'Book Another Appointment'
    paidSinceReset,
    \* history: selectedDoctor, selectedDate and selectedTime as they were when
    \* handlePayment was last invoked
    paidSelection,
    \* MedicalRecords.tsx, useState hooks (lines 33-35)
    records, dragActive, showUploadModal,
    \* the wall clock read by Date.now() / new Date(), in milliseconds
    now,
    \* App.tsx: the value of useAuth() and the router's location
    user, isLoading, location,
    \* DiagnosisNotes.tsx, useState hooks (lines 33-46)
    diagnoses, searchTerm, showAddForm, editingDiagnosis, formData,
    \* DiagnosisNotes.tsx: the position in diagnoses of the stored diagnosis
    \* whose prescriptions array formData.prescriptions references, 0 when
    \* formData has an array of its own
    aliasOf,
    \* the number of form edits made so far
    formEdits,
    \* AppointmentHistory, useState hooks (lines 56-57)
    appointments, selectedAppointment,
    \* history: the filter buttons of AppointmentHistory pressed so far
    filterClicks,
    \* the toasts emitted by the last handler that ran, in order
    emitted,
    \* history: the last handler that ran, with its input
    lastOp

bookingVars == <<selectedDoctor, selectedDate, selectedTime, showPayment,
                 paymentComplete, pendingTimers, paidSinceReset, paidSelection>>
recordsVars == <<records, dragActive, showUploadModal, now>>
appVars     == <<user, isLoading, location>>
diagnosisVars == <<diagnoses, searchTerm, showAddForm, editingDiagnosis,
                   formData, aliasOf, formEdits>>
historyVars == <<appointments, selectedAppointment, filterClicks>>
vars        == <<bookingVars, recordsVars, appVars, diagnosisVars, historyVars,
                 emitted, lastOp>>

\* ------------------------------------------------------------------ bounds

\* setTimeout callbacks that may be pending at once (Pay pressed repeatedly)
MaxTimers == 2
\* records uploaded by the patient that the list may hold at once
MaxUploads == 2
\* milliseconds the clock may advance
MaxTicks == 1
\* the clock's first reading: one millisecond before the first midnight (UTC)
ClockStart == 86399999
\* diagnoses the doctor may add to the list
MaxAdds == 2
\* edits of the diagnosis form (field and prescription edits) in one run
MaxFormEdits == 1
\* changes of the diagnosis form in one run, those past MaxFormEdits being
\* changes of a required input
MaxTyped == 3
\* presses of the filter buttons of AppointmentHistory in one run
MaxClicks == 3

\* ------------------------------------------------------------------ toasts

ErrorToast(msg)   == [kind |-> "error",   message |-> msg]
SuccessToast(msg) == [kind |-> "success", message |-> msg]
InfoToast(msg)    == [kind |-> "info",    message |-> msg]

\* JavaScript truthiness of a string: '' is falsy, every other string truthy
Falsy(s) == s = ""

\* ------------------------------------------------------- AppointmentBooking

doctors ==
    << [id |-> "1", name |-> "Dr. Sarah Wilson",    specialty |-> "Cardiology",  fee |-> 150],
       [id |-> "2", name |-> "Dr. Michael Chen",    specialty |-> "Neurology",   fee |-> 180],
       [id |-> "3", name |-> "Dr. Emily Rodriguez", specialty |-> "Dermatology", fee |-> 120],
       [id |-> "4", name |-> "Dr. David Kim",       specialty |-> "Orthopedics", fee |-> 200] >>

timeSlots ==
    << "09:00 AM", "09:30 AM", "10:00 AM", "10:30 AM",
       "02:00 PM", "02:30 PM", "03:00 PM", "03:30 PM",
       "04:00 PM", "04:30 PM", "05:00 PM", "05:30 PM" >>

DoctorIds == { doctors[i].id : i \in DOMAIN doctors }
TimeSlotSet == { timeSlots[i] : i \in DOMAIN timeSlots }
\* the time buttons the patient presses: the first two slots and the last
TimeInputs == { timeSlots[1], timeSlots[2], timeSlots[Len(timeSlots)] }
\* values the date input can hand to onChange: cleared, or a picked day
DateInputs == { "", "2026-11-02", "2026-11-03" }

\* !selectedDoctor || !selectedDate || !selectedTime
MissingField(doc, date, time) == Falsy(doc) \/ Falsy(date) \/ Falsy(time)

\* mutant: the button is disabled only while no doctor is selected
BookDisabled_DoctorOnly(doc, date, time) == Falsy(doc)

\* the disabled attribute of the 'Book Appointment' button
BookDisabled(doc, date, time) == Falsy(doc) \/ Falsy(date) \/ Falsy(time)

\* doctors.find(d => d.id === selectedDoctor): the first match, or undefined
Undefined == [undefined |-> TRUE]
selectedDoctorData(doc) ==
    IF \E i \in DOMAIN doctors : doctors[i].id = doc
    THEN doctors[CHOOSE i \in DOMAIN doctors :
                    /\ doctors[i].id = doc
                    /\ \A j \in 1..(i - 1) : doctors[j].id # doc]
    ELSE Undefined

\* which of the three returns of the component renders
BookingView(show, complete) ==
    IF complete THEN "confirmation"
    ELSE IF show THEN "payment"
    ELSE "form"

MissingFieldsToast == ErrorToast("Please fill in all required fields")
BookedToast == SuccessToast("Appointment booked successfully!")

\* mutant: the guard of handleBookAppointment is inverted
handleBookAppointmentFn_Inverted(doc, date, time, show) ==
    IF ~MissingField(doc, date, time)
    THEN [showPayment |-> show, toasts |-> <<MissingFieldsToast>>]
    ELSE [showPayment |-> TRUE, toasts |-> <<>>]

\* mutant: the early return after the error toast is missing
handleBookAppointmentFn_NoReturn(doc, date, time, show) ==
    IF MissingField(doc, date, time)
    THEN [showPayment |-> TRUE, toasts |-> <<MissingFieldsToast>>]
    ELSE [showPayment |-> TRUE, toasts |-> <<>>]

\* handleBookAppointment: the new showPayment and the toasts it emits
handleBookAppointmentFn(doc, date, time, show) ==
    IF MissingField(doc, date, time)
    THEN [showPayment |-> show, toasts |-> <<MissingFieldsToast>>]
    ELSE [showPayment |-> TRUE, toasts |-> <<>>]

View == BookingView(showPayment, paymentComplete)

\* radio input of a listed doctor (form view)
setSelectedDoctor ==
    /\ View = "form"
    /\ \E d \in DoctorIds :
        /\ selectedDoctor' = d
        /\ lastOp' = [op |-> "setSelectedDoctor", arg |-> d]
    /\ emitted' = <<>>
    /\ UNCHANGED <<selectedDate, selectedTime, showPayment, paymentComplete,
                   pendingTimers, paidSinceReset, paidSelection, recordsVars,
                   appVars, diagnosisVars, historyVars>>

\* date input (form view)
setSelectedDate ==
    /\ View = "form"
    /\ \E d \in DateInputs :
        /\ selectedDate' = d
        /\ lastOp' = [op |-> "setSelectedDate", arg |-> d]
    /\ emitted' = <<>>
    /\ UNCHANGED <<selectedDoctor, selectedTime, showPayment, paymentComplete,
                   pendingTimers, paidSinceReset, paidSelection, recordsVars,
                   appVars, diagnosisVars, historyVars>>

\* time-slot button (form view)
setSelectedTime ==
    /\ View = "form"
    /\ \E t \in TimeInputs :
        /\ selectedTime' = t
        /\ lastOp' = [op |-> "setSelectedTime", arg |-> t]
    /\ emitted' = <<>>
    /\ UNCHANGED <<selectedDoctor, selectedDate, showPayment, paymentComplete,
                   pendingTimers, paidSinceReset, paidSelection, recordsVars,
                   appVars, diagnosisVars, historyVars>>

\* the handler of the 'Book Appointment' button, run whatever the button's
\* disabled attribute says
handleBookAppointment ==
    /\ View = "form"
    /\ LET r == handleBookAppointmentFn(selectedDoctor, selectedDate,
                                        selectedTime, showPayment)
       IN /\ showPayment' = r.showPayment
          /\ emitted' = r.toasts
    /\ lastOp' = [op |-> "handleBookAppointment",
                  arg |-> IF MissingField(selectedDoctor, selectedDate, selectedTime)
                          THEN "missing" ELSE "filled"]
    /\ UNCHANGED <<selectedDoctor, selectedDate, selectedTime, paymentComplete,
                   pendingTimers, paidSinceReset, paidSelection, recordsVars,
                   appVars, diagnosisVars, historyVars>>

\* a click on the 'Book Appointment' button: a disabled button fires no click
ClickBookAppointment ==
    /\ ~BookDisabled(selectedDoctor, selectedDate, selectedTime)
    /\ handleBookAppointment

\* mutant: Back clears the payment timers
Back_ClearsTimers ==
    /\ View = "payment"
    /\ showPayment' = FALSE
    /\ pendingTimers' = 0
    /\ emitted' = <<>>
    /\ lastOp' = [op |-> "Back", arg |-> ""]
    /\ UNCHANGED <<selectedDoctor, selectedDate, selectedTime, paymentComplete,
                   paidSinceReset, paidSelection, recordsVars, appVars,
                   diagnosisVars, historyVars>>

\* 'Back' button of the payment view: setShowPayment(false)
Back ==
    /\ View = "payment"
    /\ showPayment' = FALSE
    /\ emitted' = <<>>
    /\ lastOp' = [op |-> "Back", arg |-> ""]
    /\ UNCHANGED <<selectedDoctor, selectedDate, selectedTime, paymentComplete,
                   pendingTimers, paidSinceReset, paidSelection, recordsVars,
                   appVars, diagnosisVars, historyVars>>

\* 'Pay' button of the payment view: schedules one timer, changes no state
handlePayment ==
    /\ View = "payment"
    /\ pendingTimers < MaxTimers
    /\ pendingTimers' = pendingTimers + 1
    /\ paidSinceReset' = TRUE
    /\ paidSelection' = <<selectedDoctor, selectedDate, selectedTime>>
    /\ emitted' = <<>>
    /\ lastOp' = [op |-> "handlePayment", arg |-> ""]
    /\ UNCHANGED <<selectedDoctor, selectedDate, selectedTime, showPayment,
                   paymentComplete, recordsVars, appVars, diagnosisVars,
                   historyVars>>

\* the setTimeout callback of handlePayment
PaymentTimer ==
    /\ pendingTimers > 0
    /\ pendingTimers' = pendingTimers - 1
    /\ paymentComplete' = TRUE
    /\ emitted' = <<BookedToast>>
    /\ lastOp' = [op |-> "PaymentTimer", arg |-> ""]
    /\ UNCHANGED <<selectedDoctor, selectedDate, selectedTime, showPayment,
                   paidSinceReset, paidSelection, recordsVars, appVars,
                   diagnosisVars, historyVars>>

\* 'Book Another Appointment' button of the confirmation view
BookAnother ==
    /\ View = "confirmation"
    /\ selectedDoctor' = ""
    /\ selectedDate' = ""
    /\ selectedTime' = ""
    /\ showPayment' = FALSE
    /\ paymentComplete' = FALSE
    /\ paidSinceReset' = FALSE
    /\ emitted' = <<>>
    /\ lastOp' = [op |-> "BookAnother", arg |-> ""]
    /\ UNCHANGED <<pendingTimers, paidSelection, recordsVars, appVars,
                   diagnosisVars, historyVars>>

NextBooking ==
    \/ setSelectedDoctor
    \/ setSelectedDate
    \/ setSelectedTime
    \/ handleBookAppointment
    \/ Back
    \/ handlePayment
    \/ PaymentTimer
    \/ BookAnother

\* the component driven through its rendered controls only
NextBookingUI ==
    \/ setSelectedDoctor
    \/ setSelectedDate
    \/ setSelectedTime
    \/ ClickBookAppointment
    \/ Back
    \/ handlePayment
    \/ PaymentTimer
    \/ BookAnother

\* ------------------------------------------------------------ string helpers

\* String.prototype.includes
Includes(s, sub) ==
    \E i \in 1..(Len(s) - Len(sub) + 1) : SubSeq(s, i, i + Len(sub) - 1) = sub

\* String.prototype.startsWith
StartsWith(s, prefix) ==
    /\ Len(s) >= Len(prefix)
    /\ SubSeq(s, 1, Len(prefix)) = prefix

\* one decimal digit as a string
DigitStr(d) == SubSeq("0123456789", d + 1, d + 1)

\* Number.prototype.toString of a non-negative integer
RECURSIVE ToString(_)
ToString(n) ==
    IF n < 10 THEN DigitStr(n)
    ELSE ToString(n \div 10) \o DigitStr(n % 10)

\* String.prototype.padStart(width, '0') of a non-negative integer
RECURSIVE PadStart(_, _)
PadStart(str, width) ==
    IF Len(str) >= width THEN str ELSE PadStart("0" \o str, width)

\* Number.prototype.toFixed(1) of bytes / 1024 / 1024: the quotient is exact
\* in binary floating point, so toFixed rounds the exact value to the nearest
\* tenth, the larger one on a tie
MiB == 1024 * 1024
ToFixed1MiB(bytes) ==
    LET tenths == (bytes * 20 + MiB) \div (2 * MiB)
    IN ToString(tenths \div 10) \o "." \o DigitStr(tenths % 10)

\* new Date(ms).toISOString().split('T')[0]: the UTC civil date of a
\* millisecond timestamp at or after the epoch (days-to-civil conversion)
MsPerDay == 24 * 60 * 60 * 1000
ISODate(ms) ==
    LET z   == (ms \div MsPerDay) + 719468
        era == z \div 146097
        doe == z - era * 146097
        yoe == (doe - doe \div 1460 + doe \div 36524 - doe \div 146096) \div 365
        doy == doe - (365 * yoe + yoe \div 4 - yoe \div 100)
        mp  == (5 * doy + 2) \div 153
        d   == doy - (153 * mp + 2) \div 5 + 1
        m   == IF mp < 10 THEN mp + 3 ELSE mp - 9
        y   == yoe + era * 400 + (IF m <= 2 THEN 1 ELSE 0)
    IN PadStart(ToString(y), 4) \o "-" \o PadStart(ToString(m), 2)
           \o "-" \o PadStart(ToString(d), 2)

\* ------------------------------------------------------------ MedicalRecords

mockRecords ==
    << [id |-> "1", name |-> "Blood Test Report", type |-> "PDF",
        date |-> "2024-01-15", size |-> "2.4 MB", uploadedBy |-> "Dr. Sarah Wilson"],
       [id |-> "2", name |-> "X-Ray Chest", type |-> "JPG",
        date |-> "2024-01-10", size |-> "1.8 MB", uploadedBy |-> "Dr. Michael Chen"],
       [id |-> "3", name |-> "Prescription", type |-> "PDF",
        date |-> "2024-01-08", size |-> "456 KB", uploadedBy |-> "Dr. Emily Rodriguez"] >>

allowedTypes == { "application/pdf", "image/jpeg", "image/png", "image/jpg" }

\* 10 * 1024 * 1024, the size limit of handleFileUpload
MaxFileSize == 10 * 1024 * 1024

BadTypeToast  == ErrorToast("Please upload only PDF, JPG, or PNG files")
TooLargeToast == ErrorToast("File size must be less than 10MB")
UploadedToast == SuccessToast("Medical record uploaded successfully!")
DeletedToast  == SuccessToast("Record deleted successfully")

\* the files offered to the component: every type below at every size below
\* (the sizes around the limit), named after the kind of document
FileTypes == allowedTypes \cup { "text/plain", "" }
FileSizes == { MaxFileSize - 1, MaxFileSize, MaxFileSize + 1 }
FileNameOf(type) ==
    IF type = "application/pdf" THEN "report"
    ELSE IF StartsWith(type, "image/") THEN "xray"
    ELSE "notes"
Files == { [name |-> FileNameOf(t), type |-> t, size |-> s] :
             t \in FileTypes, s \in FileSizes }

\* a FileList | null
NullFiles == [null |-> TRUE, items |-> <<>>]
FileList(items) == [null |-> FALSE, items |-> items]
FileLists == { NullFiles, FileList(<<>>) } \cup { FileList(<<f>>) : f \in Files }

\* mutant: the type check is missing
TypeAllowed_Any(type) == TRUE

\* allowedTypes.includes(file.type)
TypeAllowed(type) == type \in allowedTypes

\* mutant: the size check rejects the limit itself
TooLarge_AtLimit(size) == size >= MaxFileSize

\* mutant: the size check is missing
TooLarge_Never(size) == FALSE

\* file.size > 10 * 1024 * 1024
TooLarge(size) == size > MaxFileSize

\* mutant: a PNG file is labelled 'PNG'
NewRecord_PngLabel(file, ms, ms2) ==
    [ id         |-> ToString(ms),
      name       |-> file.name,
      type       |-> IF Includes(file.type, "pdf") THEN "PDF"
                     ELSE IF Includes(file.type, "png") THEN "PNG" ELSE "JPG",
      date       |-> ISODate(ms2),
      size       |-> ToFixed1MiB(file.size) \o " MB",
      uploadedBy |-> "Self" ]

\* the record handleFileUpload builds for an accepted file; ms is the clock
\* read by Date.now() for the id, ms2 the clock read by new Date() for the date
NewRecord(file, ms, ms2) ==
    [ id         |-> ToString(ms),
      name       |-> file.name,
      type       |-> IF Includes(file.type, "pdf") THEN "PDF" ELSE "JPG",
      date       |-> ISODate(ms2),
      size       |-> ToFixed1MiB(file.size) \o " MB",
      uploadedBy |-> "Self" ]

\* mutant: the new record replaces the list
handleFileUploadFn_Replace(files, recs, modal, ms, ms2) ==
    IF files.null \/ Len(files.items) = 0
    THEN [records |-> recs, showUploadModal |-> modal, toasts |-> <<>>]
    ELSE LET file == files.items[1] IN
         IF ~TypeAllowed(file.type)
         THEN [records |-> recs, showUploadModal |-> modal, toasts |-> <<BadTypeToast>>]
         ELSE IF TooLarge(file.size)
         THEN [records |-> recs, showUploadModal |-> modal, toasts |-> <<TooLargeToast>>]
         ELSE [records |-> <<NewRecord(file, ms, ms2)>>,
               showUploadModal |-> FALSE, toasts |-> <<UploadedToast>>]

\* mutant: the new record is appended at the end of the list
handleFileUploadFn_Append(files, recs, modal, ms, ms2) ==
    IF files.null \/ Len(files.items) = 0
    THEN [records |-> recs, showUploadModal |-> modal, toasts |-> <<>>]
    ELSE LET file == files.items[1] IN
         IF ~TypeAllowed(file.type)
         THEN [records |-> recs, showUploadModal |-> modal, toasts |-> <<BadTypeToast>>]
         ELSE IF TooLarge(file.size)
         THEN [records |-> recs, showUploadModal |-> modal, toasts |-> <<TooLargeToast>>]
         ELSE [records |-> recs \o <<NewRecord(file, ms, ms2)>>,
               showUploadModal |-> FALSE, toasts |-> <<UploadedToast>>]

\* handleFileUpload: the new records and showUploadModal, and the toasts
handleFileUploadFn(files, recs, modal, ms, ms2) ==
    IF files.null \/ Len(files.items) = 0
    THEN [records |-> recs, showUploadModal |-> modal, toasts |-> <<>>]
    ELSE LET file == files.items[1] IN
         IF ~TypeAllowed(file.type)
         THEN [records |-> recs, showUploadModal |-> modal, toasts |-> <<BadTypeToast>>]
         ELSE IF TooLarge(file.size)
         THEN [records |-> recs, showUploadModal |-> modal, toasts |-> <<TooLargeToast>>]
         ELSE [records |-> <<NewRecord(file, ms, ms2)>> \o recs,
               showUploadModal |-> FALSE, toasts |-> <<UploadedToast>>]

\* mutant: the filter keeps the records with the id
RECURSIVE FilterOutId_Inverted(_, _)
FilterOutId_Inverted(recs, id) ==
    IF recs = <<>> THEN <<>>
    ELSE IF Head(recs).id = id
         THEN <<Head(recs)>> \o FilterOutId_Inverted(Tail(recs), id)
         ELSE FilterOutId_Inverted(Tail(recs), id)

\* records.filter(record => record.id !== id)
RECURSIVE FilterOutId(_, _)
FilterOutId(recs, id) ==
    IF recs = <<>> THEN <<>>
    ELSE IF Head(recs).id # id
         THEN <<Head(recs)>> \o FilterOutId(Tail(recs), id)
         ELSE FilterOutId(Tail(recs), id)

\* the clock at a handler's second reading: not before the first
LaterReadings == now..(ClockStart + MaxTicks)

\* handleFileUpload gets as far as building the record, reading the clock
ReadsClock(files) ==
    handleFileUploadFn(files, records, showUploadModal, now, now).records
        # records

\* the clock when handleFileUpload returns: read again only for a record
SecondReadings(files) == IF ReadsClock(files) THEN LaterReadings ELSE { now }

\* the uploads the list holds (bounds the model)
Uploaded(recs) == { i \in DOMAIN recs : recs[i].uploadedBy = "Self" }
\* an upload that would add a record is taken only below the bound
WithinUploads(files) ==
    \/ Cardinality(Uploaded(records)) < MaxUploads
    \/ ~ReadsClock(files)

\* 'Upload Record' button: setShowUploadModal(true)
OpenUploadModal ==
    /\ showUploadModal' = TRUE
    /\ emitted' = <<>>
    /\ lastOp' = [op |-> "OpenUploadModal", arg |-> ""]
    /\ UNCHANGED <<records, dragActive, now, bookingVars, appVars,
                   diagnosisVars, historyVars>>

\* 'Cancel' button of the modal: setShowUploadModal(false)
CancelUpload ==
    /\ showUploadModal
    /\ showUploadModal' = FALSE
    /\ emitted' = <<>>
    /\ lastOp' = [op |-> "CancelUpload", arg |-> ""]
    /\ UNCHANGED <<records, dragActive, now, bookingVars, appVars,
                   diagnosisVars, historyVars>>

\* onChange of the modal's file input: handleFileUpload(e.target.files)
SelectFile ==
    /\ showUploadModal
    /\ \E files \in FileLists :
        /\ WithinUploads(files)
        /\ \E ms2 \in SecondReadings(files) :
            /\ LET r == handleFileUploadFn(files, records, showUploadModal,
                                           now, ms2)
               IN /\ records' = r.records
                  /\ showUploadModal' = r.showUploadModal
                  /\ emitted' = r.toasts
            /\ now' = ms2
        /\ lastOp' = [op |-> "SelectFile", arg |-> files]
    /\ UNCHANGED <<dragActive, bookingVars, appVars, diagnosisVars,
                   historyVars>>

\* handleDrag on the modal's drop zone
handleDrag ==
    /\ showUploadModal
    /\ \E type \in { "dragenter", "dragover", "dragleave" } :
        /\ dragActive' = IF type \in { "dragenter", "dragover" } THEN TRUE
                         ELSE IF type = "dragleave" THEN FALSE
                         ELSE dragActive
        /\ lastOp' = [op |-> "handleDrag", arg |-> type]
    /\ emitted' = <<>>
    /\ UNCHANGED <<records, showUploadModal, now, bookingVars, appVars,
                   diagnosisVars, historyVars>>

\* handleDrop on the modal's drop zone
handleDrop ==
    /\ showUploadModal
    /\ dragActive' = FALSE
    /\ \E files \in FileLists :
        /\ WithinUploads(files)
        /\ \E ms2 \in SecondReadings(files) :
            /\ LET r == handleFileUploadFn(files, records, showUploadModal,
                                           now, ms2)
               IN /\ records' = r.records
                  /\ showUploadModal' = r.showUploadModal
                  /\ emitted' = r.toasts
            /\ now' = ms2
        /\ lastOp' = [op |-> "handleDrop", arg |-> files]
    /\ UNCHANGED <<bookingVars, appVars, diagnosisVars, historyVars>>

\* handleDelete: the new records and the toasts it emits
handleDeleteFn(recs, id) ==
    [records |-> FilterOutId(recs, id), toasts |-> <<DeletedToast>>]

\* an id no record of the model carries
AbsentId == "0"

\* handleDelete, by the delete button of a listed record or run as such with
\* an id that is not in the list
handleDelete ==
    /\ \E id \in { records[i].id : i \in DOMAIN records } \cup { AbsentId } :
        /\ LET r == handleDeleteFn(records, id)
           IN /\ records' = r.records
              /\ emitted' = r.toasts
        /\ lastOp' = [op |-> "handleDelete", arg |-> id]
    /\ UNCHANGED <<dragActive, showUploadModal, now, bookingVars, appVars,
                   diagnosisVars, historyVars>>

\* the preview button of a listed record
PreviewRecord ==
    /\ records # <<>>
    /\ emitted' = <<InfoToast("Preview functionality would open here")>>
    /\ lastOp' = [op |-> "PreviewRecord", arg |-> ""]
    /\ UNCHANGED <<recordsVars, bookingVars, appVars, diagnosisVars,
                   historyVars>>

\* the download button of a listed record
DownloadRecord ==
    /\ records # <<>>
    /\ emitted' = <<InfoToast("Download would start here")>>
    /\ lastOp' = [op |-> "DownloadRecord", arg |-> ""]
    /\ UNCHANGED <<recordsVars, bookingVars, appVars, diagnosisVars,
                   historyVars>>

\* a millisecond passes
Tick ==
    /\ now < ClockStart + MaxTicks
    /\ now' = now + 1
    /\ emitted' = <<>>
    /\ lastOp' = [op |-> "Tick", arg |-> ""]
    /\ UNCHANGED <<records, dragActive, showUploadModal, bookingVars, appVars,
                   diagnosisVars, historyVars>>

NextRecords ==
    \/ OpenUploadModal
    \/ CancelUpload
    \/ SelectFile
    \/ handleDrag
    \/ handleDrop
    \/ handleDelete
    \/ PreviewRecord
    \/ DownloadRecord
    \/ Tick

\* ----------------------------------------------------------------------- App

Roles == { "patient", "doctor" }

\* the user of useAuth(): null, or a user with a role
NoUser == [present |-> FALSE, role |-> ""]
UserOf(role) == [present |-> TRUE, role |-> role]
Users == { NoUser } \cup { UserOf(r) : r \in Roles }

\* what a route element renders
Spinner        == [kind |-> "spinner",   what |-> ""]
NavigateTo(to) == [kind |-> "navigate",  what |-> to]
Component(c)   == [kind |-> "component", what |-> c]
NoMatch        == [kind |-> "none",      what |-> ""]

\* mutant: the role check is missing
ProtectedRoute_NoRoleCheck(u, loading, requiredRole, children) ==
    IF loading THEN Spinner
    ELSE IF ~u.present THEN NavigateTo("/login")
    ELSE Component(children)

\* mutant: the role check precedes the null check and sends both to /login
ProtectedRoute_RoleFirst(u, loading, requiredRole, children) ==
    IF loading THEN Spinner
    ELSE IF ~Falsy(requiredRole) /\ u.role # requiredRole THEN NavigateTo("/login")
    ELSE IF ~u.present THEN NavigateTo("/login")
    ELSE Component(children)

\* ProtectedRoute; requiredRole '' stands for an omitted requiredRole
ProtectedRoute(u, loading, requiredRole, children) ==
    IF loading THEN Spinner
    ELSE IF ~u.present THEN NavigateTo("/login")
    ELSE IF ~Falsy(requiredRole) /\ u.role # requiredRole THEN NavigateTo("/")
    ELSE Component(children)

\* a route path pattern against a location: 'prefix/*' matches the prefix
\* itself and everything below it, any other pattern only itself
PathMatches(pattern, path) ==
    IF Len(pattern) >= 2 /\ SubSeq(pattern, Len(pattern) - 1, Len(pattern)) = "/*"
    THEN LET prefix == SubSeq(pattern, 1, Len(pattern) - 2)
         IN path = prefix \/ StartsWith(path, prefix \o "/")
    ELSE path = pattern

\* the element <Routes> of AppContent renders at a location
RouteElement(path, u, loading) ==
    IF PathMatches("/", path) THEN Component("Landing")
    ELSE IF PathMatches("/login", path) THEN Component("Login")
    ELSE IF PathMatches("/register", path) THEN Component("Register")
    ELSE IF PathMatches("/patient/*", path)
         THEN ProtectedRoute(u, loading, "patient", "PatientDashboard")
    ELSE IF PathMatches("/doctor/*", path)
         THEN ProtectedRoute(u, loading, "doctor", "DoctorDashboard")
    ELSE NoMatch

\* the location once every <Navigate replace> rendered on the way has acted
RECURSIVE Settle(_, _, _)
Settle(path, u, loading) ==
    LET e == RouteElement(path, u, loading)
    IN IF e.kind = "navigate" THEN Settle(e.what, u, loading) ELSE path

\* locations a user may ask for
Paths == { "/", "/login", "/register", "/patient", "/patient/book",
           "/patient/records", "/doctor", "/doctor/patients", "/patients",
           "/about" }

Rendered == RouteElement(location, user, isLoading)

\* the user enters a URL or follows a link
GoTo ==
    /\ \E path \in Paths :
        /\ location' = Settle(path, user, isLoading)
        /\ lastOp' = [op |-> "GoTo", arg |-> path]
    /\ emitted' = <<>>
    /\ UNCHANGED <<user, isLoading, bookingVars, recordsVars, diagnosisVars,
                   historyVars>>

\* the auth context changes what useAuth() returns; the routes render again
AuthChange ==
    /\ \E u \in Users, l \in BOOLEAN :
        /\ <<u, l>> # <<user, isLoading>>
        /\ user' = u
        /\ isLoading' = l
        /\ location' = Settle(location, u, l)
    /\ emitted' = <<>>
    /\ lastOp' = [op |-> "AuthChange", arg |-> location]
    /\ UNCHANGED <<bookingVars, recordsVars, diagnosisVars, historyVars>>

NextApp ==
    \/ GoTo
    \/ AuthChange

\* ------------------------------------------------------------ DiagnosisNotes

mockDiagnoses ==
    << [ id            |-> "1",
         patientName   |-> "John Doe",
         patientId     |-> "1",
         date          |-> "2024-01-15",
         diagnosis     |-> "Hypertension",
         symptoms      |-> "Elevated blood pressure readings, headaches, dizziness",
         treatment     |-> "Prescribed ACE inhibitor, lifestyle modifications including diet and exercise",
         notes         |-> "Patient should monitor blood pressure daily and return for follow-up in 2 weeks",
         prescriptions |-> << "Lisinopril 10mg - Take once daily",
                              "Low sodium diet",
                              "Regular exercise 30min/day" >>,
         followUp      |-> "2024-01-29" ],
       [ id            |-> "2",
         patientName   |-> "Jane Smith",
         patientId     |-> "2",
         date          |-> "2024-01-18",
         diagnosis     |-> "Type 2 Diabetes",
         symptoms      |-> "Frequent urination, increased thirst, fatigue",
         treatment     |-> "Metformin therapy, dietary counseling, glucose monitoring",
         notes         |-> "Patient education on diabetes management provided. Referral to nutritionist scheduled",
         prescriptions |-> << "Metformin 500mg - Take twice daily with meals",
                              "Blood glucose monitor",
                              "Diabetic diet plan" >>,
         followUp      |-> "2024-02-01" ] >>

\* editingDiagnosis when no diagnosis is being edited
Null == [null |-> TRUE]

\* the form data of an empty form
EmptyForm ==
    [ patientName   |-> "",
      patientId     |-> "",
      diagnosis     |-> "",
      symptoms      |-> "",
      treatment     |-> "",
      notes         |-> "",
      prescriptions |-> << "" >>,
      followUp      |-> "" ]

\* { ...formData, id, date }
WithIdDate(fd, id, date) ==
    [ id            |-> id,
      patientName   |-> fd.patientName,
      patientId     |-> fd.patientId,
      date          |-> date,
      diagnosis     |-> fd.diagnosis,
      symptoms      |-> fd.symptoms,
      treatment     |-> fd.treatment,
      notes         |-> fd.notes,
      prescriptions |-> fd.prescriptions,
      followUp      |-> fd.followUp ]

\* the name attributes of the form's inputs bound to handleInputChange
InputNames ==
    { "patientName", "patientId", "diagnosis", "symptoms", "treatment",
      "notes", "followUp" }

\* what the doctor types into an input: a text of the field, or nothing
Typed ==
    [ patientName |-> "Ann Lee",
      patientId   |-> "3",
      diagnosis   |-> "Asthma",
      symptoms    |-> "Wheezing",
      treatment   |-> "Inhaler",
      notes       |-> "Review in a month",
      followUp    |-> "2026-11-02" ]

\* the inputs marked required
RequiredNames == { "patientName", "patientId", "diagnosis" }

\* what the doctor leaves in an input: the typed text, or nothing in a
\* required one
InputValues(name) ==
    IF name \in RequiredNames THEN { "", Typed[name] } ELSE { Typed[name] }

\* what the doctor types into a prescription input
PrescriptionValues == { "", "Salbutamol 100mcg" }

UpdatedToast == SuccessToast("Diagnosis updated successfully!")
AddedToast == SuccessToast("Diagnosis added successfully!")

\* handleInputChange: the new formData; the spread keeps the reference to the
\* prescriptions array
handleInputChangeFn(fd, name, value) == [fd EXCEPT ![name] = value]

\* mutant: the prescription is written into the array formData references,
\* which after handleEdit is the array of the stored diagnosis
handlePrescriptionChangeFn_InPlace(ds, fd, alias, index, value) ==
    LET newPrescriptions == [fd.prescriptions EXCEPT ![index] = value]
    IN [ formData  |-> [fd EXCEPT !.prescriptions = newPrescriptions],
         diagnoses |-> IF alias = 0 THEN ds
                       ELSE [ds EXCEPT ![alias].prescriptions = newPrescriptions],
         aliasOf   |-> alias ]

\* handlePrescriptionChange: the new formData with a copy of the array, the
\* diagnoses as they are; index counts from 1
handlePrescriptionChangeFn(ds, fd, alias, index, value) ==
    LET newPrescriptions == [fd.prescriptions EXCEPT ![index] = value]
    IN [ formData  |-> [fd EXCEPT !.prescriptions = newPrescriptions],
         diagnoses |-> ds,
         aliasOf   |-> 0 ]

\* addPrescription: [...formData.prescriptions, '']
addPrescriptionFn(fd) ==
    [fd EXCEPT !.prescriptions = Append(@, "")]

\* formData.prescriptions.filter((_, i) => i !== index); index counts from 1
RemoveAt(seq, index) ==
    SubSeq(seq, 1, index - 1) \o SubSeq(seq, index + 1, Len(seq))

\* removePrescription
removePrescriptionFn(fd, index) ==
    [fd EXCEPT !.prescriptions = RemoveAt(@, index)]

\* diagnoses.map(d => d.id === editing.id ? {...fd, id, date} : d)
ReplaceById(ds, editing, fd) ==
    [ i \in DOMAIN ds |->
        IF ds[i].id = editing.id
        THEN WithIdDate(fd, editing.id, editing.date)
        ELSE ds[i] ]

\* handleSubmit: the new state of the component and the toasts it emits; ms is
\* the clock read by Date.now() for the id, ms2 the clock read by new Date()
\* for the date
handleSubmitFn(ds, editing, fd, ms, ms2) ==
    IF editing # Null
    THEN [ diagnoses        |-> ReplaceById(ds, editing, fd),
           editingDiagnosis |-> Null,
           showAddForm      |-> FALSE,
           formData         |-> EmptyForm,
           toasts           |-> <<UpdatedToast>> ]
    ELSE [ diagnoses        |-> <<WithIdDate(fd, ToString(ms), ISODate(ms2))>>
                                   \o ds,
           editingDiagnosis |-> editing,
           showAddForm      |-> FALSE,
           formData         |-> EmptyForm,
           toasts           |-> <<AddedToast>> ]

\* diagnoses added to the mock list so far
Added == Len(diagnoses) - Len(mockDiagnoses)

\* the 'Add Diagnosis' button
OpenAddForm ==
    IF showAddForm
    THEN \* setShowAddForm(true) on an open form: the state update bails out
         UNCHANGED vars
    ELSE /\ showAddForm' = TRUE
         /\ emitted' = <<>>
         /\ lastOp' = [op |-> "OpenAddForm", arg |-> ""]
         /\ UNCHANGED <<diagnoses, editingDiagnosis, formData, aliasOf,
                        formEdits, bookingVars, recordsVars, appVars,
                        searchTerm, historyVars>>

\* handleEdit of a listed diagnosis: formData becomes the stored object
handleEdit ==
    /\ \E i \in DOMAIN diagnoses :
        /\ editingDiagnosis' = diagnoses[i]
        /\ formData' = diagnoses[i]
        /\ aliasOf' = i
        /\ lastOp' = [op |-> "handleEdit", arg |-> diagnoses[i].id]
    /\ showAddForm' = TRUE
    /\ emitted' = <<>>
    /\ UNCHANGED <<diagnoses, formEdits, bookingVars, recordsVars, appVars,
                   searchTerm, historyVars>>

\* a change of one of the form's named inputs
handleInputChange ==
    /\ showAddForm
    /\ formEdits < MaxFormEdits
    /\ \E name \in InputNames : \E value \in InputValues(name) :
        /\ formData' = handleInputChangeFn(formData, name, value)
        /\ lastOp' = [op |-> "handleInputChange", arg |-> name]
    /\ formEdits' = formEdits + 1
    /\ emitted' = <<>>
    /\ UNCHANGED <<diagnoses, showAddForm, editingDiagnosis, aliasOf,
                   bookingVars, recordsVars, appVars, searchTerm, historyVars>>

\* the change limit of an input of the rendered form: a required input can
\* be changed throughout the run, another one only early in it
ChangeLimit(name) == IF name \in RequiredNames THEN MaxTyped ELSE MaxFormEdits

\* onChange of one of the form's named inputs as the doctor types into it:
\* one call of handleInputChange
TypeInput ==
    /\ showAddForm
    /\ \E name \in InputNames : \E value \in InputValues(name) :
        /\ formEdits < ChangeLimit(name)
        /\ formData' = handleInputChangeFn(formData, name, value)
        /\ lastOp' = [op |-> "handleInputChange", arg |-> name]
    /\ formEdits' = formEdits + 1
    /\ emitted' = <<>>
    /\ UNCHANGED <<diagnoses, showAddForm, editingDiagnosis, aliasOf,
                   bookingVars, recordsVars, appVars, searchTerm, historyVars>>

\* a change of one of the prescription inputs
handlePrescriptionChange ==
    /\ showAddForm
    /\ formEdits < MaxFormEdits
    /\ \E index \in DOMAIN formData.prescriptions :
       \E value \in PrescriptionValues :
        LET r == handlePrescriptionChangeFn(diagnoses, formData, aliasOf,
                                            index, value)
        IN /\ formData' = r.formData
           /\ diagnoses' = r.diagnoses
           /\ aliasOf' = r.aliasOf
    /\ formEdits' = formEdits + 1
    /\ emitted' = <<>>
    /\ lastOp' = [op |-> "handlePrescriptionChange", arg |-> ""]
    /\ UNCHANGED <<showAddForm, editingDiagnosis, bookingVars, recordsVars,
                   appVars, searchTerm, historyVars>>

\* the 'Add Prescription' button
addPrescription ==
    /\ showAddForm
    /\ formEdits < MaxFormEdits
    /\ formData' = addPrescriptionFn(formData)
    /\ aliasOf' = 0
    /\ formEdits' = formEdits + 1
    /\ emitted' = <<>>
    /\ lastOp' = [op |-> "addPrescription", arg |-> ""]
    /\ UNCHANGED <<diagnoses, showAddForm, editingDiagnosis, bookingVars,
                   recordsVars, appVars, searchTerm, historyVars>>

\* the remove button of a prescription input, rendered while there is more
\* than one prescription
removePrescription ==
    /\ showAddForm
    /\ formEdits < MaxFormEdits
    /\ Len(formData.prescriptions) > 1
    /\ \E index \in DOMAIN formData.prescriptions :
        formData' = removePrescriptionFn(formData, index)
    /\ aliasOf' = 0
    /\ formEdits' = formEdits + 1
    /\ emitted' = <<>>
    /\ lastOp' = [op |-> "removePrescription", arg |-> ""]
    /\ UNCHANGED <<diagnoses, showAddForm, editingDiagnosis, bookingVars,
                   recordsVars, appVars, searchTerm, historyVars>>

\* handleSubmit, run as such on the form data as they are
handleSubmit ==
    /\ showAddForm
    /\ editingDiagnosis = Null => Added < MaxAdds
    /\ \E ms2 \in LaterReadings :
        /\ editingDiagnosis = Null \/ ms2 = now
        /\ LET r == handleSubmitFn(diagnoses, editingDiagnosis, formData,
                                   now, ms2)
           IN /\ diagnoses' = r.diagnoses
              /\ editingDiagnosis' = r.editingDiagnosis
              /\ showAddForm' = r.showAddForm
              /\ formData' = r.formData
              /\ emitted' = r.toasts
        /\ now' = ms2
    /\ aliasOf' = 0
    /\ lastOp' = [op  |-> "handleSubmit",
                  arg |-> IF editingDiagnosis = Null THEN "add" ELSE "edit"]
    /\ UNCHANGED <<formEdits, bookingVars, records, dragActive,
                   showUploadModal, appVars, searchTerm, historyVars>>

\* the form's X and Cancel buttons
handleCancel ==
    /\ showAddForm
    /\ showAddForm' = FALSE
    /\ editingDiagnosis' = Null
    /\ formData' = EmptyForm
    /\ aliasOf' = 0
    /\ emitted' = <<>>
    /\ lastOp' = [op  |-> "handleCancel",
                  arg |-> IF editingDiagnosis = Null THEN "add"
                          ELSE IF formData.prescriptions
                                    # editingDiagnosis.prescriptions
                               THEN "edit, prescriptions changed"
                               ELSE "edit"]
    /\ UNCHANGED <<diagnoses, formEdits, bookingVars, recordsVars, appVars,
                   searchTerm, historyVars>>

\* String.prototype.toLowerCase, on the letters A to Z
UpperCase == "ABCDEFGHIJKLMNOPQRSTUVWXYZ"
LowerCase == "abcdefghijklmnopqrstuvwxyz"

\* the lower-case letter of each upper-case letter
LowerOf ==
    [ c \in { SubSeq(UpperCase, n, n) : n \in 1..Len(UpperCase) } |->
        LET n == CHOOSE n \in 1..Len(UpperCase) : SubSeq(UpperCase, n, n) = c
        IN SubSeq(LowerCase, n, n) ]

LowerChar(c) == IF c \in DOMAIN LowerOf THEN LowerOf[c] ELSE c

RECURSIVE ToLowerCase(_)
ToLowerCase(s) ==
    IF Len(s) = 0 THEN ""
    ELSE LowerChar(SubSeq(s, 1, 1)) \o ToLowerCase(SubSeq(s, 2, Len(s)))

\* mutant: the comparison keeps the case of the letters
SearchMatches_CaseSensitive(d, term) ==
    \/ Includes(d.patientName, term)
    \/ Includes(d.diagnosis, term)

\* the predicate of filteredDiagnoses
SearchMatches(d, term) ==
    \/ Includes(ToLowerCase(d.patientName), ToLowerCase(term))
    \/ Includes(ToLowerCase(d.diagnosis), ToLowerCase(term))

\* filteredDiagnoses: diagnoses.filter(...)
RECURSIVE filteredDiagnoses(_, _)
filteredDiagnoses(ds, term) ==
    IF ds = <<>> THEN <<>>
    ELSE IF SearchMatches(Head(ds), term)
         THEN <<Head(ds)>> \o filteredDiagnoses(Tail(ds), term)
         ELSE filteredDiagnoses(Tail(ds), term)

\* what the doctor types into the search input
SearchTerms == { "", "john", "DIAB" }

\* the search input
setSearchTerm ==
    /\ \E term \in SearchTerms \ { searchTerm } :
        /\ searchTerm' = term
        /\ lastOp' = [op |-> "setSearchTerm", arg |-> term]
    /\ emitted' = <<>>
    /\ UNCHANGED <<diagnoses, showAddForm, editingDiagnosis, formData, aliasOf,
                   formEdits, bookingVars, recordsVars, appVars, historyVars>>

\* the edit button of a displayed diagnosis
ClickEdit ==
    /\ \E i \in DOMAIN diagnoses :
        IF SearchMatches(diagnoses[i], searchTerm)
        THEN /\ editingDiagnosis' = diagnoses[i]
             /\ formData' = diagnoses[i]
             /\ aliasOf' = i
             /\ lastOp' = [op |-> "handleEdit", arg |-> diagnoses[i].id]
        ELSE FALSE
    /\ showAddForm' = TRUE
    /\ emitted' = <<>>
    /\ UNCHANGED <<diagnoses, formEdits, bookingVars, recordsVars, appVars,
                   searchTerm, historyVars>>

\* mutant: only the patient name is required
RequiredFilled_NameOnly(fd) == fd.patientName # ""

\* the browser's validation of the inputs marked required: none is empty
RequiredFilled(fd) ==
    /\ fd.patientName # ""
    /\ fd.patientId # ""
    /\ fd.diagnosis # ""

\* the form's submit button: the submit event reaches handleSubmit only when
\* the required inputs are filled
SubmitForm ==
    /\ RequiredFilled(formData)
    /\ handleSubmit

NextDiagnosis ==
    \/ OpenAddForm
    \/ handleEdit
    \/ handleInputChange
    \/ handlePrescriptionChange
    \/ addPrescription
    \/ removePrescription
    \/ handleSubmit
    \/ handleCancel
    \/ Tick

NextDiagnosisUI ==
    \/ OpenAddForm
    \/ ClickEdit
    \/ handleInputChange
    \/ handlePrescriptionChange
    \/ addPrescription
    \/ removePrescription
    \/ SubmitForm
    \/ handleCancel
    \/ setSearchTerm
    \/ Tick

NextDiagnosisForm ==
    \/ OpenAddForm
    \/ ClickEdit
    \/ TypeInput
    \/ handlePrescriptionChange
    \/ addPrescription
    \/ removePrescription
    \/ SubmitForm
    \/ handleCancel
    \/ Tick

\* -------------------------------------------------------- AppointmentHistory

\* rating and diagnosis are null or a value: <<>> stands for null
mockAppointments ==
    << [ id            |-> "1",
         doctor        |-> "Dr. Sarah Wilson",
         specialty     |-> "Cardiology",
         date          |-> "2024-01-20",
         time          |-> "10:00 AM",
         status        |-> "completed",
         fee           |-> 150,
         rating        |-> << 5 >>,
         diagnosis     |-> << "Regular checkup completed. Heart rate and blood pressure normal." >>,
         prescriptions |-> << "Aspirin 81mg - Take daily",
                              "Lisinopril 10mg - Take twice daily" >> ],
       [ id            |-> "2",
         doctor        |-> "Dr. Michael Chen",
         specialty     |-> "Neurology",
         date          |-> "2024-01-25",
         time          |-> "2:30 PM",
         status        |-> "upcoming",
         fee           |-> 180,
         rating        |-> << >>,
         diagnosis     |-> << >>,
         prescriptions |-> << >> ],
       [ id            |-> "3",
         doctor        |-> "Dr. Emily Rodriguez",
         specialty     |-> "Dermatology",
         date          |-> "2024-01-18",
         time          |-> "11:00 AM",
         status        |-> "completed",
         fee           |-> 120,
         rating        |-> << 4 >>,
         diagnosis     |-> << "Skin examination completed. Minor eczema treated." >>,
         prescriptions |-> << "Hydrocortisone cream - Apply twice daily" >> ],
       [ id            |-> "4",
         doctor        |-> "Dr. David Kim",
         specialty     |-> "Orthopedics",
         date          |-> "2024-01-12",
         time          |-> "3:00 PM",
         status        |-> "cancelled",
         fee           |-> 200,
         rating        |-> << >>,
         diagnosis     |-> << >>,
         prescriptions |-> << >> ] >>

\* selectedAppointment when no appointment is selected
NoAppointment == [null |-> TRUE]

\* the labels of the filter buttons
FilterNames == { "All", "Upcoming", "Completed", "Cancelled" }

\* the filter selected last; 'All' is rendered as the active button
selectedFilter ==
    IF filterClicks = <<>> THEN "All" ELSE filterClicks[Len(filterClicks)]

\* the appointments of the list: appointments.map(...)
displayedAppointments == appointments

\* a filter button; it has no onClick handler
ClickFilter ==
    /\ Len(filterClicks) < MaxClicks
    /\ \E f \in FilterNames :
        /\ filterClicks' = Append(filterClicks, f)
        /\ lastOp' = [op |-> "ClickFilter", arg |-> f]
    /\ emitted' = <<>>
    /\ UNCHANGED <<appointments, selectedAppointment, bookingVars, recordsVars,
                   appVars, diagnosisVars>>

\* the 'View Details' button of a completed appointment
ViewDetails ==
    /\ \E i \in DOMAIN displayedAppointments :
        /\ displayedAppointments[i].status = "completed"
        /\ selectedAppointment' = displayedAppointments[i]
        /\ lastOp' = [op |-> "ViewDetails", arg |-> displayedAppointments[i].id]
    /\ emitted' = <<>>
    /\ UNCHANGED <<appointments, filterClicks, bookingVars, recordsVars,
                   appVars, diagnosisVars>>

\* the close button of the details modal
CloseDetails ==
    /\ selectedAppointment # NoAppointment
    /\ selectedAppointment' = NoAppointment
    /\ emitted' = <<>>
    /\ lastOp' = [op |-> "CloseDetails", arg |-> ""]
    /\ UNCHANGED <<appointments, filterClicks, bookingVars, recordsVars,
                   appVars, diagnosisVars>>

NextHistory ==
    \/ ClickFilter
    \/ ViewDetails
    \/ CloseDetails

\* ------------------------------------------------------------ specifications

Init ==
    /\ selectedDoctor = ""
    /\ selectedDate = ""
    /\ selectedTime = ""
    /\ showPayment = FALSE
    /\ paymentComplete = FALSE
    /\ pendingTimers = 0
    /\ paidSinceReset = FALSE
    /\ paidSelection = <<"", "", "">>
    /\ records = mockRecords
    /\ dragActive = FALSE
    /\ showUploadModal = FALSE
    /\ now = ClockStart
    /\ user = NoUser
    /\ isLoading = TRUE
    /\ location = "/"
    /\ diagnoses = mockDiagnoses
    /\ searchTerm = ""
    /\ showAddForm = FALSE
    /\ editingDiagnosis = Null
    /\ formData = EmptyForm
    /\ aliasOf = 0
    /\ formEdits = 0
    /\ appointments = mockAppointments
    /\ selectedAppointment = NoAppointment
    /\ filterClicks = <<>>
    /\ emitted = <<>>
    /\ lastOp = [op |-> "mount", arg |-> ""]

\* AppointmentBooking, its handlers run as such
SpecBooking == Init /\ [][NextBooking]_vars

\* AppointmentBooking with the event loop running every due timer callback
SpecBookingFair == Init /\ [][NextBooking]_vars /\ WF_vars(PaymentTimer)

\* AppointmentBooking, its handlers reached through the rendered controls
SpecBookingUI == Init /\ [][NextBookingUI]_vars

\* MedicalRecords
SpecRecords == Init /\ [][NextRecords]_vars

\* App: routing under every auth state
SpecApp == Init /\ [][NextApp]_vars

\* DiagnosisNotes, its handlers run as such
SpecDiagnosis == Init /\ [][NextDiagnosis]_vars

\* DiagnosisNotes, through its rendered controls
SpecDiagnosisUI == Init /\ [][NextDiagnosisUI]_vars

\* DiagnosisNotes, its form filled in and submitted through the rendered
\* controls
SpecDiagnosisForm == Init /\ [][NextDiagnosisForm]_vars

\* AppointmentHistory, through its rendered controls
SpecHistory == Init /\ [][NextHistory]_vars

\* -------------------------------------------------- claims: AppointmentBooking

\* kinds of the toasts in a sequence of toasts
ToastKinds(toasts) == { toasts[i].kind : i \in DOMAIN toasts }

\* C1: whenever handleBookAppointment runs with selectedDoctor, selectedDate
\* and selectedTime all non-empty, showPayment becomes true, no error toast is
\* emitted, and (paymentComplete being false) the payment view is displayed.
C1_FilledFormShowsPayment ==
    [][ ( /\ lastOp'.op = "handleBookAppointment"
          /\ selectedDoctor # "" /\ selectedDate # "" /\ selectedTime # "" )
        => ( /\ showPayment'
             /\ "error" \notin ToastKinds(emitted')
             /\ ~paymentComplete'
             /\ BookingView(showPayment', paymentComplete') = "payment" ) ]_vars

C1_Witness ==
    /\ lastOp = [op |-> "handleBookAppointment", arg |-> "filled"]
    /\ selectedDoctor # "" /\ selectedDate # "" /\ selectedTime # ""
    /\ showPayment
    /\ View = "payment"

\* C2: whenever handleBookAppointment runs with at least one of the three
\* selections empty, the error toast 'Please fill in all required fields' is
\* emitted and showPayment, paymentComplete and the three selections are left
\* unchanged; the payment view is not shown.
C2_MissingFieldRejected ==
    [][ ( /\ lastOp'.op = "handleBookAppointment"
          /\ (selectedDoctor = "" \/ selectedDate = "" \/ selectedTime = "") )
        => ( /\ emitted' = <<ErrorToast("Please fill in all required fields")>>
             /\ UNCHANGED <<showPayment, paymentComplete, selectedDoctor,
                            selectedDate, selectedTime>>
             /\ BookingView(showPayment', paymentComplete') # "payment" ) ]_vars

C2_Witness ==
    /\ lastOp = [op |-> "handleBookAppointment", arg |-> "missing"]
    /\ selectedDoctor # "" /\ selectedDate = "" /\ selectedTime # ""
    /\ emitted = <<MissingFieldsToast>>
    /\ View = "form"

\* C7: once handlePayment has been invoked, paymentComplete eventually becomes
\* true and the success toast 'Appointment booked successfully!' is emitted;
\* no later action of the component (Back, changing doctor, date or time)
\* cancels a pending timer: a timer leaves the pending ones only by running.
C7_PaymentTimerNeverCancelled ==
    /\ (lastOp.op = "handlePayment")
          ~> (paymentComplete /\ emitted = <<SuccessToast("Appointment booked successfully!")>>)
    /\ [][ pendingTimers' >= pendingTimers
           \/ ( /\ pendingTimers' = pendingTimers - 1
                /\ paymentComplete'
                /\ emitted' = <<SuccessToast("Appointment booked successfully!")>> ) ]_vars

\* the timer ran although Back had hidden the payment view and the form was
\* changed meanwhile
C7_Witness ==
    /\ lastOp.op = "PaymentTimer"
    /\ paymentComplete
    /\ ~showPayment
    /\ selectedDate = ""
    /\ emitted = <<BookedToast>>

\* C10: after 'Book Another Appointment' all five state variables are back at
\* their initial values, and paymentComplete stays false until handlePayment
\* is invoked again: no timer scheduled before the reset sets it afterwards.
C10_ResetHoldsUntilNextPayment ==
    /\ lastOp.op = "BookAnother"
          => ( /\ selectedDoctor = "" /\ selectedDate = "" /\ selectedTime = ""
               /\ ~showPayment /\ ~paymentComplete )
    /\ paymentComplete => paidSinceReset

\* C11: in every reachable state in which paymentComplete is true,
\* selectedDoctor, selectedDate and selectedTime are all non-empty and
\* selectedDoctor is the id of a listed doctor, so the confirmation view shows
\* a defined doctor name, date, time and fee.
C11_ConfirmationShowsDefinedBooking ==
    paymentComplete =>
        ( /\ selectedDoctor # "" /\ selectedDate # "" /\ selectedTime # ""
          /\ selectedDoctor \in { "1", "2", "3", "4" }
          /\ selectedDoctorData(selectedDoctor) # Undefined )

\* C12: the doctor, date and time shown on the confirmation view are the ones
\* selected when Pay was pressed: selectedDoctor, selectedDate and
\* selectedTime do not change between the invocation of handlePayment and the
\* moment its timer sets paymentComplete.
C12_SelectionFixedWhilePaying ==
    lastOp.op = "PaymentTimer"
        => <<selectedDoctor, selectedDate, selectedTime>> = paidSelection

\* C13: the 'Book Appointment' button is enabled exactly when selectedDoctor,
\* selectedDate and selectedTime are all non-empty, so through the rendered
\* controls handleBookAppointment only runs with all fields filled and the
\* error toast 'Please fill in all required fields' is never emitted.
C13_NoMissingFieldToastThroughUI ==
    /\ BookDisabled(selectedDoctor, selectedDate, selectedTime)
          <=> (selectedDoctor = "" \/ selectedDate = "" \/ selectedTime = "")
    /\ lastOp.op = "handleBookAppointment" => lastOp.arg = "filled"
    /\ \A i \in DOMAIN emitted :
          emitted[i] # ErrorToast("Please fill in all required fields")

\* the button was pressed with the form filled, and later the form is back
\* with the date cleared and the button disabled
C13_Witness ==
    /\ lastOp.op = "setSelectedDate"
    /\ selectedDoctor # "" /\ selectedDate = "" /\ selectedTime # ""
    /\ BookDisabled(selectedDoctor, selectedDate, selectedTime)
    /\ paidSinceReset

\* ------------------------------------------------------ claims: MedicalRecords

\* the handler that ran last was handleFileUpload with a file in hand
RanUpload(o) ==
    /\ o.op \in { "SelectFile", "handleDrop" }
    /\ ~o.arg.null
    /\ Len(o.arg.items) > 0

\* the file handleFileUpload looked at
UploadedFile(o) == o.arg.items[1]

\* occurrences of a record in a list
Count(recs, r) == Cardinality({ i \in DOMAIN recs : recs[i] = r })

\* C3: uploading a file of an allowed type whose size is larger than 10MB
\* (10*1024*1024 bytes) emits an error toast and adds no record: records is
\* unchanged, the upload modal stays open, and no success toast is emitted.
C3_OversizeRejected ==
    [][ ( /\ RanUpload(lastOp')
          /\ UploadedFile(lastOp').type \in
                { "application/pdf", "image/jpeg", "image/png", "image/jpg" }
          /\ UploadedFile(lastOp').size > 10 * 1024 * 1024 )
        => ( /\ "error" \in ToastKinds(emitted')
             /\ "success" \notin ToastKinds(emitted')
             /\ records' = records
             /\ showUploadModal /\ showUploadModal' ) ]_vars

C3_Witness ==
    /\ RanUpload(lastOp)
    /\ UploadedFile(lastOp).type = "image/png"
    /\ UploadedFile(lastOp).size = MaxFileSize + 1
    /\ emitted = <<TooLargeToast>>
    /\ showUploadModal

\* C4: a file whose MIME type is not one of application/pdf, image/jpeg,
\* image/png, image/jpg is rejected whatever its size: exactly one error
\* toast, the file-type one, is emitted, and records and showUploadModal are
\* unchanged.
C4_BadTypeRejected ==
    [][ ( /\ RanUpload(lastOp')
          /\ UploadedFile(lastOp').type \notin
                { "application/pdf", "image/jpeg", "image/png", "image/jpg" } )
        => ( /\ emitted' = <<ErrorToast("Please upload only PDF, JPG, or PNG files")>>
             /\ records' = records
             /\ showUploadModal' = showUploadModal ) ]_vars

\* a file of a wrong type that is also too large got the file-type toast only
C4_Witness ==
    /\ RanUpload(lastOp)
    /\ UploadedFile(lastOp).type = "text/plain"
    /\ UploadedFile(lastOp).size > MaxFileSize
    /\ emitted = <<BadTypeToast>>
    /\ showUploadModal

\* C5: with the modal open, selecting a file of an allowed type and of size
\* at most 10MB adds exactly one record (the length grows by one and every
\* record held before is still present), closes the modal and emits one
\* success toast.
C5_UploadAddsOneRecord ==
    [][ ( /\ RanUpload(lastOp')
          /\ showUploadModal
          /\ UploadedFile(lastOp').type \in
                { "application/pdf", "image/jpeg", "image/png", "image/jpg" }
          /\ UploadedFile(lastOp').size <= 10 * 1024 * 1024 )
        => ( /\ Len(records') = Len(records) + 1
             /\ \A i \in DOMAIN records :
                   Count(records', records[i]) >= Count(records, records[i])
             /\ ~showUploadModal'
             /\ emitted' = <<SuccessToast("Medical record uploaded successfully!")>> ) ]_vars

C5_Witness ==
    /\ lastOp.op = "SelectFile"
    /\ RanUpload(lastOp)
    /\ UploadedFile(lastOp).type = "application/pdf"
    /\ UploadedFile(lastOp).size < MaxFileSize
    /\ Len(records) = Len(mockRecords) + 1
    /\ \A i \in DOMAIN mockRecords : Count(records, mockRecords[i]) = 1
    /\ ~showUploadModal
    /\ emitted = <<UploadedToast>>

\* C9 as claimed: every file of an allowed type with size greater than or
\* equal to 10*1024*1024 bytes, a file of exactly that size included, is
\* rejected with the toast 'File size must be less than 10MB'.
C9_AtLeastLimitRejected ==
    ( /\ RanUpload(lastOp)
      /\ UploadedFile(lastOp).type \in
            { "application/pdf", "image/jpeg", "image/png", "image/jpg" }
      /\ UploadedFile(lastOp).size >= 10 * 1024 * 1024 )
    => emitted = <<ErrorToast("File size must be less than 10MB")>>

\* C9 as amended: a file of an allowed type is rejected with the toast 'File
\* size must be less than 10MB' exactly when its size is greater than
\* 10*1024*1024 bytes; a file of exactly that size is accepted and added.
C9_OverLimitRejected ==
    [][ ( /\ RanUpload(lastOp')
          /\ UploadedFile(lastOp').type \in
                { "application/pdf", "image/jpeg", "image/png", "image/jpg" } )
        => IF UploadedFile(lastOp').size > 10 * 1024 * 1024
           THEN /\ emitted' = <<ErrorToast("File size must be less than 10MB")>>
                /\ records' = records
           ELSE /\ "error" \notin ToastKinds(emitted')
                /\ Len(records') = Len(records) + 1
                /\ records'[1].name = UploadedFile(lastOp').name ]_vars

\* a file of exactly 10*1024*1024 bytes was accepted
C9_Witness ==
    /\ RanUpload(lastOp)
    /\ UploadedFile(lastOp).type = "image/jpeg"
    /\ UploadedFile(lastOp).size = 10 * 1024 * 1024
    /\ emitted = <<UploadedToast>>
    /\ records[1].size = "10.0 MB"

\* the upload handler ran last and accepted its file
AcceptedUpload(o) ==
    /\ RanUpload(o)
    /\ UploadedFile(o).type \in
          { "application/pdf", "image/jpeg", "image/png", "image/jpg" }
    /\ UploadedFile(o).size <= 10 * 1024 * 1024

\* C14: after any sequence of uploads and deletes all records of the list have
\* pairwise distinct ids (ids of new records come from Date.now()), so
\* handleDelete of a listed record's id removes exactly one record.
C14_DistinctRecordIds ==
    [][ /\ \A i, j \in DOMAIN records' :
              i # j => records'[i].id # records'[j].id
        /\ ( /\ lastOp'.op = "handleDelete"
              /\ \E i \in DOMAIN records : records[i].id = lastOp'.arg )
            => Len(records') = Len(records) - 1 ]_vars

\* C15: handleDelete(id) removes every record whose id equals id and no other
\* record, keeps the remaining records in their relative order, emits the
\* success toast and leaves showUploadModal and dragActive unchanged; when no
\* record has that id the list is unchanged.
C15_DeleteRemovesById ==
    [][ lastOp'.op = "handleDelete" =>
        LET Keep(r) == r.id # lastOp'.arg IN
        /\ records' = SelectSeq(records, Keep)
        /\ (\A i \in DOMAIN records : Keep(records[i])) => records' = records
        /\ emitted' = <<SuccessToast("Record deleted successfully")>>
        /\ UNCHANGED <<showUploadModal, dragActive>> ]_vars

\* an uploaded record was deleted by its id with the modal open, the mock
\* records are left in their order
C15_Witness ==
    /\ lastOp.op = "handleDelete"
    /\ lastOp.arg = ToString(ClockStart)
    /\ records = mockRecords
    /\ showUploadModal
    /\ emitted = <<DeletedToast>>

\* C16: a newly uploaded record is placed at the front of records with the
\* previous records following in unchanged order, and it carries the file's
\* name and uploadedBy 'Self'.
C16_UploadGoesToFront ==
    [][ AcceptedUpload(lastOp') =>
        /\ records' # <<>>
        /\ Tail(records') = records
        /\ Head(records').name = UploadedFile(lastOp').name
        /\ Head(records').uploadedBy = "Self" ]_vars

C16_Witness ==
    /\ AcceptedUpload(lastOp)
    /\ UploadedFile(lastOp).name = "xray"
    /\ Len(records) = Len(mockRecords) + 2
    /\ records[1].name = "xray" /\ records[1].uploadedBy = "Self"
    /\ records[2].name = "report" /\ records[2].uploadedBy = "Self"
    /\ SubSeq(records, 3, 5) = mockRecords

\* C17: the type label of an uploaded record is 'PDF' exactly when the file's
\* MIME type contains 'pdf' and 'JPG' for every other accepted file, so a PNG
\* upload is labelled 'JPG', and the type of every record of the list is
\* 'PDF' or 'JPG'.
C17_TypeLabelPdfOrJpg ==
    /\ \A i \in DOMAIN records : records[i].type \in { "PDF", "JPG" }
    /\ [][ /\ \A i \in DOMAIN records' : records'[i].type \in { "PDF", "JPG" }
            /\ AcceptedUpload(lastOp') =>
                 ( /\ records' # <<>>
                   /\ Head(records').type = "PDF"
                         <=> UploadedFile(lastOp').type = "application/pdf"
                   /\ Head(records').type = "JPG"
                         <=> UploadedFile(lastOp').type \in
                               { "image/jpeg", "image/png", "image/jpg" } ) ]_vars

\* a PNG upload is labelled 'JPG'
C17_Witness ==
    /\ AcceptedUpload(lastOp)
    /\ UploadedFile(lastOp).type = "image/png"
    /\ records[1].type = "JPG"
    /\ records[1].name = UploadedFile(lastOp).name

\* ----------------------------------------------------------------- claims: App

\* C6: the content wrapped by ProtectedRoute is rendered only if isLoading is
\* false, user is non-null and user.role equals requiredRole: PatientDashboard
\* only for a user with role 'patient', DoctorDashboard only for a user with
\* role 'doctor'.
C6_DashboardsOnlyForTheirRole ==
    /\ Rendered = Component("PatientDashboard")
          => (~isLoading /\ user.present /\ user.role = "patient")
    /\ Rendered = Component("DoctorDashboard")
          => (~isLoading /\ user.present /\ user.role = "doctor")

C6_Witness ==
    /\ Rendered = Component("PatientDashboard")
    /\ location = "/patient/book"
    /\ user = UserOf("patient")

\* the dashboard and the role of the protected locations of the model
ProtectedPatient == { "/patient", "/patient/book", "/patient/records" }
ProtectedDoctor  == { "/doctor", "/doctor/patients" }

\* C8: ProtectedRoute decides in a fixed order: while isLoading it shows the
\* spinner and neither redirects nor renders children; otherwise a null user
\* is redirected to /login; otherwise a user of another role is redirected
\* to / (not to /login); only otherwise are the children rendered.  The
\* routes /, /login and /register render in every auth state.
C8_ProtectedRouteOrder ==
    [][ lastOp'.op \in { "GoTo", "AuthChange" } =>
        LET p == lastOp'.arg IN
        /\ p \in ProtectedPatient \cup ProtectedDoctor =>
             LET role == IF p \in ProtectedPatient THEN "patient" ELSE "doctor"
                 dash == IF p \in ProtectedPatient THEN "PatientDashboard"
                                                   ELSE "DoctorDashboard"
             IN IF isLoading'
                THEN location' = p /\ Rendered' = Spinner
                ELSE IF ~user'.present
                THEN location' = "/login" /\ Rendered' = Component("Login")
                ELSE IF user'.role # role
                THEN location' = "/" /\ Rendered' = Component("Landing")
                ELSE location' = p /\ Rendered' = Component(dash)
        /\ p = "/" => (location' = p /\ Rendered' = Component("Landing"))
        /\ p = "/login" => (location' = p /\ Rendered' = Component("Login"))
        /\ p = "/register" => (location' = p /\ Rendered' = Component("Register")) ]_vars

\* a doctor asking for the patient portal was sent to /, not to /login
C8_Witness ==
    /\ lastOp = [op |-> "GoTo", arg |-> "/patient/records"]
    /\ user = UserOf("doctor")
    /\ ~isLoading
    /\ location = "/"

\* ------------------------------------------------------ claims: DiagnosisNotes

\* C18: handleSubmit in edit mode (editingDiagnosis non-null) replaces exactly
\* the diagnosis whose id equals editingDiagnosis.id by the form data, keeping
\* that diagnosis's id and date; the number of diagnoses, their order and
\* every other diagnosis are unchanged, and the toast 'Diagnosis updated
\* successfully!' is emitted.
C18_EditReplacesOneDiagnosis ==
    [][ (lastOp'.op = "handleSubmit" /\ editingDiagnosis # Null) =>
        /\ Len(diagnoses') = Len(diagnoses)
        /\ \E i \in DOMAIN diagnoses :
            /\ diagnoses[i].id = editingDiagnosis.id
            /\ diagnoses'[i] = [formData EXCEPT !.id = diagnoses[i].id,
                                                !.date = diagnoses[i].date]
            /\ \A j \in DOMAIN diagnoses \ {i} : diagnoses'[j] = diagnoses[j]
        /\ emitted' = <<SuccessToast("Diagnosis updated successfully!")>> ]_vars

\* C19: handleSubmit in add mode (editingDiagnosis null) inserts exactly one
\* new diagnosis built from the form data at the front of diagnoses, with a
\* fresh id and the current date, leaves all existing diagnoses unchanged and
\* in order, and emits the toast 'Diagnosis added successfully!'.
C19_AddInsertsFreshDiagnosis ==
    [][ (lastOp'.op = "handleSubmit" /\ editingDiagnosis = Null) =>
        /\ Len(diagnoses') = Len(diagnoses) + 1
        /\ Tail(diagnoses') = diagnoses
        /\ \A name \in InputNames \cup {"prescriptions"} :
              Head(diagnoses')[name] = formData[name]
        /\ \A i \in DOMAIN diagnoses : diagnoses[i].id # Head(diagnoses').id
        /\ \E t \in now..now' : Head(diagnoses').date = ISODate(t)
        /\ emitted' = <<SuccessToast("Diagnosis added successfully!")>> ]_vars

\* C20: opening a diagnosis with handleEdit, then any sequence of
\* handleInputChange, handlePrescriptionChange, addPrescription and
\* removePrescription, then handleCancel leaves diagnoses exactly as it was
\* before handleEdit: no stored diagnosis, its prescriptions array included,
\* is modified unless handleSubmit runs.
C20_OnlySubmitChangesDiagnoses ==
    [][ lastOp'.op # "handleSubmit" => diagnoses' = diagnoses ]_vars

\* a diagnosis was opened, its prescriptions were edited and the form was
\* cancelled: the list is the mock list
C20_Witness ==
    /\ lastOp = [op |-> "handleCancel", arg |-> "edit, prescriptions changed"]
    /\ formEdits = MaxFormEdits
    /\ diagnoses = mockDiagnoses
    /\ formData = EmptyForm
    /\ ~showAddForm

\* C21: a diagnosis is saved only after basic field validation: every
\* diagnosis of the list has a non-empty patientName, patientId and diagnosis,
\* so handleSubmit, reached through the form, never stores a diagnosis in
\* which one of the three is empty.
C21_SavedDiagnosesAreValidated ==
    \A i \in DOMAIN diagnoses :
        /\ diagnoses[i].patientName # ""
        /\ diagnoses[i].patientId # ""
        /\ diagnoses[i].diagnosis # ""

\* a new diagnosis was stored from the add form, its required inputs filled
C21_Witness ==
    /\ lastOp = [op |-> "handleSubmit", arg |-> "add"]
    /\ Len(diagnoses) = Len(mockDiagnoses) + 1
    /\ diagnoses[1].patientName = Typed["patientName"]
    /\ diagnoses[1].patientId = Typed["patientId"]
    /\ diagnoses[1].diagnosis = Typed["diagnosis"]
    /\ Tail(diagnoses) = mockDiagnoses
    /\ ~showAddForm

\* a letter in its two cases
LetterPairs ==
    { { SubSeq(UpperCase, n, n), SubSeq(LowerCase, n, n) } :
        n \in 1..Len(UpperCase) }

\* two characters are the same letter, whatever their case
SameLetter(a, b) == a = b \/ {a, b} \in LetterPairs

\* t occurs in s as a substring, compared case-insensitively
ContainsIgnoringCase(s, t) ==
    \E i \in 0..(Len(s) - Len(t)) :
        \A k \in 1..Len(t) :
            SameLetter(SubSeq(s, i + k, i + k), SubSeq(t, k, k))

\* shown is the sub-sequence of ds, in the order of ds, of the diagnoses whose
\* patientName or diagnosis contains term, and all of ds when term is empty
IsSearchResult(shown, ds, term) ==
    \E Keep \in { { i \in DOMAIN ds :
                      \/ ContainsIgnoringCase(ds[i].patientName, term)
                      \/ ContainsIgnoringCase(ds[i].diagnosis, term) } } :
        LET Nth(k) == CHOOSE i \in Keep :
                          Cardinality({ j \in Keep : j <= i }) = k
        IN /\ Len(shown) = Cardinality(Keep)
           /\ \A k \in DOMAIN shown : shown[k] = ds[Nth(k)]
           /\ term = "" => shown = ds

\* C22: the displayed list is exactly the sub-sequence of diagnoses whose
\* patientName or diagnosis contains searchTerm as a substring, compared
\* case-insensitively, in the order of diagnoses; an empty searchTerm displays
\* every diagnosis, and changing searchTerm never modifies diagnoses.
C22_SearchShowsMatchingDiagnoses ==
    /\ []IsSearchResult(filteredDiagnoses(diagnoses, searchTerm), diagnoses,
                        searchTerm)
    /\ [][ lastOp'.op = "setSearchTerm" => diagnoses' = diagnoses ]_vars

\* 'john' was typed into the search input: of the mock list only John Doe's
\* diagnosis is displayed
C22_Witness ==
    /\ lastOp = [op |-> "setSearchTerm", arg |-> "john"]
    /\ searchTerm = "john"
    /\ diagnoses = mockDiagnoses
    /\ filteredDiagnoses(diagnoses, searchTerm) = <<mockDiagnoses[1]>>

\* the status a filter button stands for
StatusOfFilter(f) ==
    IF f = "Upcoming" THEN "upcoming"
    ELSE IF f = "Completed" THEN "completed"
    ELSE "cancelled"

\* C23: in AppointmentHistory, selecting the 'Upcoming', 'Completed' or
\* 'Cancelled' filter restricts the displayed appointments to those with that
\* status, and 'All' displays every appointment.
C23_FilterRestrictsByStatus ==
    LET Selected(a) == selectedFilter = "All"
                       \/ a.status = StatusOfFilter(selectedFilter)
    IN displayedAppointments = SelectSeq(appointments, Selected)

====
